---- MODULE Spec2Model ----
(***************************************************************************)
(* The Twilio <-> OpenAI Realtime bridge of src/voice.py (media_stream).   *)
(*                                                                         *)
(* One call is modelled: the coroutine media_stream, the two pumps it      *)
(* gathers (twilio_to_openai, openai_to_twilio) and the two sockets.       *)
(* A pump handler runs from one blocking receive to the next; the sends    *)
(* inside a handler do not hand control to the other pump in a way that    *)
(* touches the closure variables, so one handler is one action.            *)
(*                                                                         *)
(* Further sections model the resampling functions of src/voice.py, two    *)
(* calls of media_stream side by side, the record-and-reply handlers of    *)
(* src/voice_v7.py, the inbound loop of src/voice_v5.py and the SMS        *)
(* endpoint of src/main_v12.py, each under a specification of its own.     *)
(***************************************************************************)
EXTENDS Integers, Sequences, FiniteSets, TLC

(* ---- bounds of the exploration ---------------------------------------- *)
MaxIn == 13           \* telephony events read by the inbound pump
MaxOut == 2           \* upstream messages read by the outbound pump

(* ---- program constants ------------------------------------------------ *)
TWILIO_FRAME_MS == 20
MIN_COMMIT_MS == 120

NoSid == "<None>"                       \* Python None
StartSids == {"", "CA123", "CA456"}     \* streamSid values of start events
DeltaSamples == {0, 2, 3, 6}            \* 24 kHz samples carried by a delta

VARIABLES
    pc,                  \* position of media_stream
    keyPresent,          \* bool(OPENAI_API_KEY)
    wsState,             \* telephony socket
    oaState,             \* upstream socket
    inPump,              \* twilio_to_openai task
    outPump,             \* openai_to_twilio task
    frames_since_commit,
    stream_sid,
    cancelled_once,
    oaSent,              \* directives written to the upstream socket, in order
    twSent,              \* media events written to the telephony socket, in order
    nIn,                 \* telephony events read so far
    nOut,                \* upstream messages read so far
    started,             \* a start event has been read
    nAudioOut,           \* audio deltas read that yield at least one 8 kHz sample
    nAudioIn,            \* media frames read that decode to at least one sample
    errSeen,             \* an upstream event of type error has been read
    touched,             \* closure variables each pump has read or written
    codecIn,             \* resampling: the array handed to the function
    codecOp,             \* resampling: the functions applied to it, in order
    codecOut,            \* resampling: the array returned by the last one
    calls,               \* two calls of media_stream: the state of each
    actor,               \* two calls: the call whose coroutine ran last
    SESSIONS,            \* voice_v7 / voice_v8: the registry of sessions
    files,               \* voice_v7 / voice_v8: reply.mp3 and call.mp3
    caller,              \* voice_v7 / voice_v8: each call as Twilio drives it
    lastReq,             \* voice_v7 / voice_v8: the request handled last
    v5Sent,              \* voice_v5: directives written upstream, in order
    v5Pump,              \* voice_v5: the forward_audio_to_openai task
    bookings,            \* main_v12: logs/bookings.json, one record per user
    smsLast              \* main_v12: the SMS request handled last

codecVars == <<codecIn, codecOp, codecOut>>
twoCallVars == <<calls, actor>>
recVars == <<SESSIONS, files, caller, lastReq>>
v5Vars == <<v5Sent, v5Pump>>

(* the variables that belong to the other programs modelled in this module *)
smsVars == <<bookings, smsLast>>

otherVars == <<codecVars, twoCallVars, recVars, v5Vars, smsVars>>

bridgeVars == <<pc, keyPresent, wsState, oaState, inPump, outPump,
                frames_since_commit, stream_sid, cancelled_once,
                oaSent, twSent, nIn, nOut, started, nAudioOut, nAudioIn,
                errSeen, touched>>

vars == <<bridgeVars, otherVars>>

callVars == <<frames_since_commit, stream_sid, cancelled_once>>
logVars == <<oaSent, twSent, nIn, nOut, started, nAudioOut, nAudioIn, errSeen>>

(* ---- helpers ---------------------------------------------------------- *)
Directive(t, f) == [type |-> t, frame |-> f]

Count(seq, t) == Cardinality({i \in DOMAIN seq : seq[i].type = t})

FirstIndex(seq, t) ==
    IF Count(seq, t) = 0 THEN 0
    ELSE CHOOSE i \in DOMAIN seq :
            /\ seq[i].type = t
            /\ \A j \in DOMAIN seq : seq[j].type = t => i <= j

(* downsample_24k_to_8k followed by pcm16_to_mulaw: one byte per whole    *)
(* block of three samples, the incomplete trailing block is trimmed.      *)
UlawLen(n24) == n24 \div 3

Falsy(sid) == sid = NoSid \/ sid = ""

(* While one program of the repository is explored the variables of the  *)
(* others rest at these values.                                           *)
CodecParked == codecIn = <<>> /\ codecOp = <<>> /\ codecOut = <<>>

TwoCallParked == calls = <<>> /\ actor = "none"

RecParked ==
    SESSIONS = <<>> /\ files = <<>> /\ caller = <<>> /\ lastReq = <<>>

V5Parked == v5Sent = <<>> /\ v5Pump = "idle"

SmsParked == bookings = <<>> /\ smsLast = <<>>

CallFields == {"frames_since_commit", "stream_sid", "cancelled_once"}

NoAccess == [inbound |-> {}, outbound |-> {}]

Init ==
    /\ CodecParked
    /\ TwoCallParked
    /\ RecParked
    /\ V5Parked
    /\ touched = NoAccess
    /\ pc = "init"
    /\ keyPresent \in BOOLEAN
    /\ wsState = "pending"
    /\ oaState = "none"
    /\ inPump = "idle"
    /\ outPump = "idle"
    /\ frames_since_commit = 0
    /\ stream_sid = NoSid
    /\ cancelled_once = FALSE
    /\ oaSent = <<>>
    /\ twSent = <<>>
    /\ nIn = 0
    /\ nOut = 0
    /\ started = FALSE
    /\ nAudioOut = 0
    /\ nAudioIn = 0
    /\ errSeen = FALSE
    /\ SmsParked

(* no call is in progress *)
BridgeParked ==
    /\ touched = NoAccess
    /\ pc = "init"
    /\ keyPresent = FALSE
    /\ wsState = "pending"
    /\ oaState = "none"
    /\ inPump = "idle"
    /\ outPump = "idle"
    /\ frames_since_commit = 0
    /\ stream_sid = NoSid
    /\ cancelled_once = FALSE
    /\ oaSent = <<>>
    /\ twSent = <<>>
    /\ nIn = 0
    /\ nOut = 0
    /\ started = FALSE
    /\ nAudioOut = 0
    /\ nAudioIn = 0
    /\ errSeen = FALSE

(* ---- media_stream, before the pumps ----------------------------------- *)
Accept ==
    /\ pc = "init"
    /\ pc' = "accepted"
    /\ wsState' = "open"
    /\ UNCHANGED <<keyPresent, oaState, inPump, outPump, callVars, logVars>>
    /\ UNCHANGED <<touched, otherVars>>

(* variant: the early return leaves the telephony socket as it is *)
MissingKey_NoClose ==
    /\ pc = "accepted"
    /\ ~keyPresent
    /\ pc' = "returned"
    /\ UNCHANGED <<keyPresent, wsState, oaState, inPump, outPump, callVars,
                   logVars>>
    /\ UNCHANGED <<touched, otherVars>>

MissingKey ==
    /\ pc = "accepted"
    /\ ~keyPresent
    /\ wsState' = "closed"
    /\ pc' = "returned"
    /\ UNCHANGED <<keyPresent, oaState, inPump, outPump, callVars, logVars>>
    /\ UNCHANGED <<touched, otherVars>>

(* variant: the early return on a missing credential is not taken *)
ConnectOk_NoKeyCheck ==
    /\ pc = "accepted"
    /\ oaState' = "open"
    /\ pc' = "opened"
    /\ UNCHANGED <<keyPresent, wsState, inPump, outPump, callVars, logVars>>
    /\ UNCHANGED <<touched, otherVars>>

ConnectOk ==
    /\ pc = "accepted"
    /\ keyPresent
    /\ oaState' = "open"
    /\ pc' = "opened"
    /\ UNCHANGED <<keyPresent, wsState, inPump, outPump, callVars, logVars>>
    /\ UNCHANGED <<touched, otherVars>>

ConnectFail ==
    /\ pc = "accepted"
    /\ keyPresent
    /\ oaState' = "failed"
    /\ pc' = "returned"
    /\ UNCHANGED <<keyPresent, wsState, inPump, outPump, callVars, logVars>>
    /\ UNCHANGED <<touched, otherVars>>

(* variant: the configuration directive is never written *)
SendSessionUpdate_Skip ==
    /\ pc = "opened"
    /\ pc' = "configured"
    /\ UNCHANGED <<keyPresent, wsState, oaState, inPump, outPump, callVars,
                   logVars>>
    /\ UNCHANGED <<touched, otherVars>>

SendSessionUpdate ==
    /\ pc = "opened"
    /\ oaSent' = Append(oaSent, Directive("session.update", 0))
    /\ pc' = "configured"
    /\ UNCHANGED <<keyPresent, wsState, oaState, inPump, outPump, callVars,
                   twSent, nIn, nOut, started, nAudioOut,
                   nAudioIn, errSeen>>
    /\ UNCHANGED <<touched, otherVars>>

(* variant: the session is configured again together with the greeting *)
SendGreeting_Reconfigure ==
    /\ pc = "configured"
    /\ oaSent' = oaSent \o <<Directive("session.update", 0),
                             Directive("response.create", 0)>>
    /\ frames_since_commit' = 0
    /\ stream_sid' = NoSid
    /\ cancelled_once' = FALSE
    /\ inPump' = "running"
    /\ outPump' = "running"
    /\ pc' = "pumps"
    /\ UNCHANGED <<keyPresent, wsState, oaState,
                   twSent, nIn, nOut, started, nAudioOut,
                   nAudioIn, errSeen>>
    /\ UNCHANGED <<touched, otherVars>>

(* variant: the pumps start without the greeting having been requested *)
SendGreeting_Skip ==
    /\ pc = "configured"
    /\ frames_since_commit' = 0
    /\ stream_sid' = NoSid
    /\ cancelled_once' = FALSE
    /\ inPump' = "running"
    /\ outPump' = "running"
    /\ pc' = "pumps"
    /\ UNCHANGED <<keyPresent, wsState, oaState, logVars>>
    /\ UNCHANGED <<touched, otherVars>>

SendGreeting ==
    /\ pc = "configured"
    /\ oaSent' = Append(oaSent, Directive("response.create", 0))
    /\ frames_since_commit' = 0
    /\ stream_sid' = NoSid
    /\ cancelled_once' = FALSE
    /\ inPump' = "running"
    /\ outPump' = "running"
    /\ pc' = "pumps"
    /\ UNCHANGED <<keyPresent, wsState, oaState,
                   twSent, nIn, nOut, started, nAudioOut,
                   nAudioIn, errSeen>>
    /\ UNCHANGED <<touched, otherVars>>

(* ---- twilio_to_openai: one action per telephony event ------------------ *)
InReady ==
    /\ inPump = "running"
    /\ wsState = "open"
    /\ nIn < MaxIn

TwConnected ==
    /\ InReady
    /\ nIn' = nIn + 1
    /\ UNCHANGED <<pc, keyPresent, wsState, oaState, inPump, outPump, callVars,
                   oaSent, twSent, nOut, started, nAudioOut,
                   nAudioIn, errSeen>>
    /\ UNCHANGED <<touched, otherVars>>

(* The closure variables of media_stream a handler reads ("r") or writes   *)
(* ("w"). A start event assigns stream_sid.                               *)
TwStartAccess == {<<"w", "stream_sid">>}

(* variant: only the first start event is taken *)
TwStart_KeepFirst(sid) ==
    /\ InReady
    /\ nIn' = nIn + 1
    /\ stream_sid' = IF stream_sid = NoSid THEN sid ELSE stream_sid
    /\ started' = TRUE
    /\ UNCHANGED <<pc, keyPresent, wsState, oaState, inPump, outPump,
                   frames_since_commit, cancelled_once,
                   oaSent, twSent, nOut, nAudioOut,
                   nAudioIn, errSeen>>
    /\ touched' = [touched EXCEPT !.inbound = @ \cup TwStartAccess]
    /\ UNCHANGED otherVars

TwStart(sid) ==
    /\ InReady
    /\ nIn' = nIn + 1
    /\ stream_sid' = sid
    /\ started' = TRUE
    /\ UNCHANGED <<pc, keyPresent, wsState, oaState, inPump, outPump,
                   frames_since_commit, cancelled_once,
                   oaSent, twSent, nOut, nAudioOut,
                   nAudioIn, errSeen>>
    /\ touched' = [touched EXCEPT !.inbound = @ \cup TwStartAccess]
    /\ UNCHANGED otherVars

(* variant: a stop event commits what has been appended before leaving *)
TwStop_FinalCommit ==
    /\ InReady
    /\ nIn' = nIn + 1
    /\ inPump' = "done"
    /\ oaSent' = Append(oaSent, Directive("input_audio_buffer.commit", 0))
    /\ frames_since_commit' = 0
    /\ UNCHANGED <<pc, keyPresent, wsState, oaState, outPump,
                   stream_sid, cancelled_once,
                   twSent, nOut, started, nAudioOut, nAudioIn, errSeen>>
    /\ UNCHANGED <<touched, otherVars>>

TwStop ==
    /\ InReady
    /\ nIn' = nIn + 1
    /\ inPump' = "done"
    /\ UNCHANGED <<pc, keyPresent, wsState, oaState, outPump, callVars,
                   oaSent, twSent, nOut, started, nAudioOut,
                   nAudioIn, errSeen>>
    /\ UNCHANGED <<touched, otherVars>>

(* variant: an event of unknown kind ends the loop *)
TwOther_Break ==
    /\ InReady
    /\ nIn' = nIn + 1
    /\ inPump' = "done"
    /\ UNCHANGED <<pc, keyPresent, wsState, oaState, outPump, callVars,
                   oaSent, twSent, nOut, started, nAudioOut,
                   nAudioIn, errSeen>>
    /\ UNCHANGED <<touched, otherVars>>

TwOther ==
    /\ InReady
    /\ nIn' = nIn + 1
    /\ UNCHANGED <<pc, keyPresent, wsState, oaState, inPump, outPump, callVars,
                   oaSent, twSent, nOut, started, nAudioOut,
                   nAudioIn, errSeen>>
    /\ UNCHANGED <<touched, otherVars>>

(* payload of a media event: absent, "", a base64 text that decodes to no *)
(* byte (such as "="), a frame of mu-law bytes, or a text on which        *)
(* base64.b64decode raises (wrong padding, such as "A").                  *)
MediaPayloads == {"absent", "empty", "zero", "audio", "badpad"}

DecodeRaises(p) == p = "badpad"

PayloadFalsy(p) == p \in {"absent", "empty"}

(* size of mulaw_to_pcm16(np.frombuffer(b64decode(payload))) *)
Pcm8Size(p) == IF p = "audio" THEN 160 ELSE 0

(* variant: > in place of >= *)
CommitDue_Strict(frames) == frames * TWILIO_FRAME_MS > MIN_COMMIT_MS

CommitDue(frames) == frames * TWILIO_FRAME_MS >= MIN_COMMIT_MS

(* variant: the flag is not consulted *)
NeedCancel_Always(flag) == TRUE

(* variant: no cancel is ever written *)
NeedCancel_Never(flag) == FALSE

NeedCancel(flag) == ~flag

(* variant: the counter is not reset by a commit *)
CounterAfter_NoReset(frames) == frames + 1

(* variant: the frame that triggers a commit is counted again after it *)
CounterAfter_CountsCommitFrame(frames) ==
    IF CommitDue(frames + 1) THEN 1 ELSE frames + 1

CounterAfter(frames) == IF CommitDue(frames + 1) THEN 0 ELSE frames + 1

(* variant: the barge-in cancel is written after the frame's append *)
FrameDirectives_CancelAfterAppend(flag, frames, id) ==
    <<Directive("input_audio_buffer.append", id)>>
    \o (IF ~flag THEN <<Directive("response.cancel", 0)>> ELSE <<>>)
    \o (IF frames * TWILIO_FRAME_MS + TWILIO_FRAME_MS >= MIN_COMMIT_MS
        THEN <<Directive("input_audio_buffer.commit", 0)>> ELSE <<>>)

(* the directives one audio frame writes upstream, in program order *)
FrameDirectives(flag, frames, id) ==
    (IF NeedCancel(flag) THEN <<Directive("response.cancel", 0)>> ELSE <<>>)
    \o <<Directive("input_audio_buffer.append", id)>>
    \o (IF CommitDue(frames + 1)
        THEN <<Directive("input_audio_buffer.commit", 0)>> ELSE <<>>)

(* A frame that decodes to audio tests cancelled_once; when the sends go   *)
(* through it sets the flag (if it was false), increments the counter,    *)
(* compares it with the threshold and resets it after a commit. A send    *)
(* that raises leaves the handler right after the test of the flag.       *)
TwMediaAccess(p, flag, upstreamOpen) ==
    IF PayloadFalsy(p) \/ DecodeRaises(p) \/ Pcm8Size(p) = 0 THEN {}
    ELSE {<<"r", "cancelled_once">>}
         \cup (IF ~upstreamOpen THEN {}
               ELSE (IF ~flag THEN {<<"w", "cancelled_once">>} ELSE {})
                    \cup {<<"r", "frames_since_commit">>,
                          <<"w", "frames_since_commit">>})

(* variant: a decoded frame is counted but never written upstream *)
TwMedia_Swallow(p) ==
    /\ InReady
    /\ nIn' = nIn + 1
    /\ nAudioIn' = IF Pcm8Size(p) > 0 THEN nAudioIn + 1 ELSE nAudioIn
    /\ UNCHANGED <<inPump, callVars, oaSent>>
    /\ UNCHANGED <<pc, keyPresent, wsState, oaState, outPump,
                   twSent, nOut, started, nAudioOut, errSeen>>
    /\ UNCHANGED <<touched, otherVars>>

TwMedia(p) ==
    /\ InReady
    /\ nIn' = nIn + 1
    /\ IF PayloadFalsy(p)
       THEN UNCHANGED <<inPump, callVars, oaSent, nAudioIn>>
       ELSE IF DecodeRaises(p)
       THEN \* binascii.Error leaves the loop and the coroutine
            /\ inPump' = "failed"
            /\ UNCHANGED <<callVars, oaSent, nAudioIn>>
       ELSE IF Pcm8Size(p) = 0
       THEN UNCHANGED <<inPump, callVars, oaSent, nAudioIn>>
       ELSE IF oaState # "open"
       THEN \* the first send_str raises on a closed upstream socket
            /\ inPump' = "failed"
            /\ nAudioIn' = nAudioIn + 1
            /\ UNCHANGED <<callVars, oaSent>>
       ELSE \* the frame is tagged with its arrival number
            /\ oaSent' = oaSent \o
                    FrameDirectives(cancelled_once, frames_since_commit,
                                    nAudioIn + 1)
            /\ nAudioIn' = nAudioIn + 1
            /\ cancelled_once' = TRUE
            /\ frames_since_commit' = CounterAfter(frames_since_commit)
            /\ UNCHANGED <<inPump, stream_sid>>
    /\ UNCHANGED <<pc, keyPresent, wsState, oaState, outPump,
                   twSent, nOut, started, nAudioOut, errSeen>>
    /\ touched' = [touched EXCEPT !.inbound = @ \cup
                      TwMediaAccess(p, cancelled_once, oaState = "open")]
    /\ UNCHANGED otherVars

(* text that is not JSON, a start without start.streamSid, a media event  *)
(* without a media object: json.loads or the subscript raises and the     *)
(* exception leaves twilio_to_openai.                                     *)
TwMalformed ==
    /\ InReady
    /\ nIn' = nIn + 1
    /\ inPump' = "failed"
    /\ UNCHANGED <<pc, keyPresent, wsState, oaState, outPump, callVars,
                   oaSent, twSent, nOut, started, nAudioOut,
                   nAudioIn, errSeen>>
    /\ UNCHANGED <<touched, otherVars>>

(* the telephony peer hangs up *)
TwPeerClose ==
    /\ wsState = "open"
    /\ keyPresent
    /\ pc \in {"accepted", "pumps", "returned"}
    /\ wsState' = "peer_closed"
    /\ UNCHANGED <<pc, keyPresent, oaState, inPump, outPump, callVars, logVars>>
    /\ UNCHANGED <<touched, otherVars>>

(* ws.receive_text() raises WebSocketDisconnect *)
InRecvDisconnect ==
    /\ inPump = "running"
    /\ wsState = "peer_closed"
    /\ inPump' = "failed"
    /\ UNCHANGED <<pc, keyPresent, wsState, oaState, outPump, callVars, logVars>>
    /\ UNCHANGED <<touched, otherVars>>

(* ---- openai_to_twilio: one action per upstream message ---------------- *)
OutReady ==
    /\ outPump = "running"
    /\ oaState = "open"
    /\ nOut < MaxOut

(* variant: only None is tested, an empty stream id passes *)
DropDelta_NoneOnly(sid, ulawLen) == sid = NoSid \/ ulawLen = 0

DropDelta(sid, ulawLen) == Falsy(sid) \/ ulawLen = 0

(* variant: the outbound pump clears the barge-in flag on each delta *)
OaDeltaAccess_ClearsFlag == {<<"r", "stream_sid">>, <<"w", "cancelled_once">>}

(* Every decodable audio delta tests stream_sid, and reads it again for   *)
(* the media event it sends.                                              *)
OaDeltaAccess == {<<"r", "stream_sid">>}

(* variant: the newest delta is put in front of the ones already relayed *)
OaAudioDelta_Prepend(n24) ==
    /\ OutReady
    /\ nOut' = nOut + 1
    /\ nAudioOut' = IF UlawLen(n24) > 0 THEN nAudioOut + 1 ELSE nAudioOut
    /\ IF DropDelta(stream_sid, UlawLen(n24))
       THEN UNCHANGED <<outPump, twSent>>
       ELSE IF wsState # "open"
       THEN /\ outPump' = "failed"
            /\ UNCHANGED twSent
       ELSE /\ twSent' = <<[sid |-> stream_sid, delta |-> nOut + 1,
                            bytes |-> UlawLen(n24)]>> \o twSent
            /\ UNCHANGED outPump
    /\ UNCHANGED <<pc, keyPresent, wsState, oaState, inPump, callVars,
                   oaSent, nIn, started, nAudioIn, errSeen>>
    /\ touched' = [touched EXCEPT !.outbound = @ \cup OaDeltaAccess]
    /\ UNCHANGED otherVars

(* variant: a delta of a single byte is kept back for a later event *)
OaAudioDelta_HoldShort(n24) ==
    /\ OutReady
    /\ nOut' = nOut + 1
    /\ nAudioOut' = IF UlawLen(n24) > 0 THEN nAudioOut + 1 ELSE nAudioOut
    /\ IF DropDelta(stream_sid, UlawLen(n24)) \/ UlawLen(n24) < 2
       THEN UNCHANGED <<outPump, twSent>>
       ELSE IF wsState # "open"
       THEN /\ outPump' = "failed"
            /\ UNCHANGED twSent
       ELSE /\ twSent' = Append(twSent,
                    [sid |-> stream_sid, delta |-> nOut + 1,
                     bytes |-> UlawLen(n24)])
            /\ UNCHANGED outPump
    /\ UNCHANGED <<pc, keyPresent, wsState, oaState, inPump, callVars,
                   oaSent, nIn, started, nAudioIn, errSeen>>
    /\ touched' = [touched EXCEPT !.outbound = @ \cup OaDeltaAccess]
    /\ UNCHANGED otherVars

OaAudioDelta(n24) ==
    /\ OutReady
    /\ nOut' = nOut + 1
    /\ nAudioOut' = IF UlawLen(n24) > 0 THEN nAudioOut + 1 ELSE nAudioOut
    /\ IF DropDelta(stream_sid, UlawLen(n24))
       THEN UNCHANGED <<outPump, twSent>>
       ELSE IF wsState # "open"
       THEN \* ws.send_text raises on a disconnected telephony socket
            /\ outPump' = "failed"
            /\ UNCHANGED twSent
       ELSE /\ twSent' = Append(twSent,
                    [sid |-> stream_sid, delta |-> nOut + 1,
                     bytes |-> UlawLen(n24)])
            /\ UNCHANGED outPump
    /\ UNCHANGED <<pc, keyPresent, wsState, oaState, inPump, callVars,
                   oaSent, nIn, started,
                   nAudioIn, errSeen>>
    /\ touched' = [touched EXCEPT !.outbound = @ \cup OaDeltaAccess]
    /\ UNCHANGED otherVars

(* variant: an error event is raised as an exception *)
OaErrorEvent_Fatal ==
    /\ OutReady
    /\ nOut' = nOut + 1
    /\ errSeen' = TRUE
    /\ outPump' = "failed"
    /\ UNCHANGED <<pc, keyPresent, wsState, oaState, inPump, callVars,
                   oaSent, twSent, nIn, started, nAudioOut, nAudioIn>>
    /\ UNCHANGED <<touched, otherVars>>

OaErrorEvent ==
    /\ OutReady
    /\ nOut' = nOut + 1
    /\ errSeen' = TRUE
    /\ UNCHANGED <<pc, keyPresent, wsState, oaState, inPump, outPump, callVars,
                   oaSent, twSent, nIn, started, nAudioOut,
                   nAudioIn>>
    /\ UNCHANGED <<touched, otherVars>>

(* any other event type, a binary frame or a WSMsgType.ERROR frame *)
OaOtherMsg ==
    /\ OutReady
    /\ nOut' = nOut + 1
    /\ UNCHANGED <<pc, keyPresent, wsState, oaState, inPump, outPump, callVars,
                   oaSent, twSent, nIn, started, nAudioOut,
                   nAudioIn, errSeen>>
    /\ UNCHANGED <<touched, otherVars>>

(* an audio delta whose audio text makes base64.b64decode raise, or whose *)
(* bytes are not a whole number of 16-bit samples (np.frombuffer raises): *)
(* the exception leaves openai_to_twilio.                                 *)
OaBadDelta ==
    /\ OutReady
    /\ nOut' = nOut + 1
    /\ outPump' = "failed"
    /\ UNCHANGED <<pc, keyPresent, wsState, oaState, inPump, callVars,
                   oaSent, twSent, nIn, started, nAudioOut,
                   nAudioIn, errSeen>>
    /\ UNCHANGED <<touched, otherVars>>

(* text that is not JSON, or a delta without an audio field: json.loads   *)
(* or the subscript raises.                                               *)
OaBadMsg ==
    /\ OutReady
    /\ nOut' = nOut + 1
    /\ outPump' = "failed"
    /\ UNCHANGED <<pc, keyPresent, wsState, oaState, inPump, callVars,
                   oaSent, twSent, nIn, started, nAudioOut,
                   nAudioIn, errSeen>>
    /\ UNCHANGED <<touched, otherVars>>

(* the iteration over the upstream socket ends: the peer closed it, or    *)
(* media_stream has already left the async with block.                    *)
OaRecvClose ==
    /\ outPump = "running"
    /\ oaState \in {"open", "released"}
    /\ outPump' = "done"
    /\ oaState' = IF oaState = "open" THEN "closed" ELSE oaState
    /\ UNCHANGED <<pc, keyPresent, wsState, inPump, callVars, logVars>>
    /\ UNCHANGED <<touched, otherVars>>

(* ---- media_stream, after asyncio.gather ------------------------------- *)
GatherReturn ==
    /\ pc = "pumps"
    /\ inPump = "done"
    /\ outPump = "done"
    /\ oaState' = "released"
    /\ pc' = "returned"
    /\ UNCHANGED <<keyPresent, wsState, inPump, outPump, callVars, logVars>>
    /\ UNCHANGED <<touched, otherVars>>

(* variant: after a pump error the bridge connects upstream again *)
GatherRaise_Reconnect ==
    /\ pc = "pumps"
    /\ inPump = "failed" \/ outPump = "failed"
    /\ oaState' = "released"
    /\ inPump' = "idle"
    /\ outPump' = "idle"
    /\ pc' = "accepted"
    /\ UNCHANGED <<keyPresent, wsState, callVars, logVars>>
    /\ UNCHANGED <<touched, otherVars>>

(* the first exception of a pump leaves gather at once; the other pump is *)
(* not cancelled. The async with blocks close the upstream socket and the *)
(* except clause prints.                                                  *)
GatherRaise ==
    /\ pc = "pumps"
    /\ inPump = "failed" \/ outPump = "failed"
    /\ oaState' = "released"
    /\ pc' = "returned"
    /\ UNCHANGED <<keyPresent, wsState, inPump, outPump, callVars, logVars>>
    /\ UNCHANGED <<touched, otherVars>>

(* ---- lifecycle of the call, read off the program position ------------- *)
PumpEnded == inPump \in {"done", "failed"} \/ outPump \in {"done", "failed"}

Lifecycle ==
    CASE pc = "init" -> "INIT"
      [] pc \in {"accepted", "opened"} -> "CONNECTED"
      [] pc = "configured" -> "SESSION_ESTABLISHED"
      [] pc = "pumps" /\ PumpEnded -> "CLOSING"
      [] pc = "pumps" /\ ~PumpEnded
            /\ Count(oaSent, "input_audio_buffer.append") = 0 -> "GREETING_SENT"
      [] pc = "pumps" /\ ~PumpEnded
            /\ Count(oaSent, "input_audio_buffer.append") > 0 -> "ACTIVE"
      [] pc = "returned" -> "CLOSED"

Rank(l) ==
    CASE l = "INIT" -> 0
      [] l = "CONNECTED" -> 1
      [] l = "SESSION_ESTABLISHED" -> 2
      [] l = "GREETING_SENT" -> 3
      [] l = "ACTIVE" -> 4
      [] l = "CLOSING" -> 5
      [] l = "CLOSED" -> 6

Next ==
    \/ Accept
    \/ MissingKey
    \/ ConnectOk
    \/ ConnectFail
    \/ SendSessionUpdate
    \/ SendGreeting
    \/ TwConnected
    \/ \E sid \in StartSids : TwStart(sid)
    \/ TwStop
    \/ TwOther
    \/ \E p \in MediaPayloads : TwMedia(p)
    \/ TwMalformed
    \/ TwPeerClose
    \/ InRecvDisconnect
    \/ \E n \in DeltaSamples : OaAudioDelta(n)
    \/ OaErrorEvent
    \/ OaOtherMsg
    \/ OaBadDelta
    \/ OaBadMsg
    \/ OaRecvClose
    \/ GatherReturn
    \/ GatherRaise

TypeOK ==
    /\ pc \in {"init", "accepted", "opened", "configured", "pumps", "returned"}
    /\ keyPresent \in BOOLEAN
    /\ wsState \in {"pending", "open", "peer_closed", "closed"}
    /\ oaState \in {"none", "failed", "open", "closed", "released"}
    /\ inPump \in {"idle", "running", "done", "failed"}
    /\ outPump \in {"idle", "running", "done", "failed"}
    /\ frames_since_commit \in Nat
    /\ stream_sid \in StartSids \cup {NoSid}
    /\ cancelled_once \in BOOLEAN
    /\ nIn \in 0..MaxIn
    /\ nOut \in 0..MaxOut
    /\ started \in BOOLEAN
    /\ nAudioOut \in 0..MaxOut
    /\ nAudioIn \in 0..MaxIn
    /\ errSeen \in BOOLEAN
    /\ touched \in [inbound : SUBSET ({"r", "w"} \X CallFields),
                    outbound : SUBSET ({"r", "w"} \X CallFields)]

Spec == Init /\ [][Next]_vars

(* The event loop runs every coroutine that is ready: the steps of         *)
(* media_stream itself, a receive that raises on a disconnected telephony  *)
(* socket, and the end of the iteration over an upstream socket that has   *)
(* been released. Nothing is assumed about what the two peers send or      *)
(* when they close.                                                        *)
FairSpec ==
    /\ Spec
    /\ WF_vars(Accept)
    /\ WF_vars(MissingKey)
    /\ WF_vars(ConnectOk \/ ConnectFail)
    /\ WF_vars(SendSessionUpdate)
    /\ WF_vars(SendGreeting)
    /\ WF_vars(GatherReturn)
    /\ WF_vars(GatherRaise)
    /\ WF_vars(InRecvDisconnect)
    /\ WF_vars(OaRecvClose /\ oaState = "released")


(* ======================================================================= *)
(* src/voice.py: resampling between the 8 kHz telephony rate and the       *)
(* 24 kHz upstream rate. Arrays of int16 samples are sequences.            *)
(* ======================================================================= *)
MaxLen == 4           \* samples in an input array

CodecSamples == {-32768, -2, 0, 1, 32767}

CodecInputs == UNION {[1..n -> CodecSamples] : n \in 0..MaxLen}

(* astype(np.int16) of a float: the fraction is cut off, toward zero *)
TruncDiv(a, b) == IF a >= 0 THEN a \div b ELSE -((-a) \div b)

(* a sum kept in 16 bits, two's complement *)
Wrap16(v) == ((v + 32768) % 65536) - 32768

(* variant: np.tile, the whole array three times over *)
upsample_8k_to_24k_Tile(pcm) ==
    IF Len(pcm) = 0 THEN pcm
    ELSE [i \in 1..(3 * Len(pcm)) |-> pcm[((i - 1) % Len(pcm)) + 1]]

(* np.repeat(pcm, 3) *)
upsample_8k_to_24k(pcm) ==
    IF Len(pcm) = 0 THEN pcm
    ELSE [i \in 1..(3 * Len(pcm)) |-> pcm[((i - 1) \div 3) + 1]]

(* variant: the three samples of a block are summed in int16 *)
downsample_24k_to_8k_Int16Sum(pcm) ==
    LET n == Len(pcm)
        trim == n - (n \div 3) * 3
        kept == IF trim # 0 THEN SubSeq(pcm, 1, n - trim) ELSE pcm
    IN  IF n = 0 THEN pcm
        ELSE IF Len(kept) = 0 THEN kept
        ELSE [k \in 1..(Len(kept) \div 3) |->
                TruncDiv(Wrap16(kept[3 * k - 2] + kept[3 * k - 1] + kept[3 * k]),
                         3)]

(* trailing samples beyond a multiple of three are cut, then each block of *)
(* three is replaced by its mean (computed in float64) cast to int16       *)
downsample_24k_to_8k(pcm) ==
    LET n == Len(pcm)
        trim == n - (n \div 3) * 3
        kept == IF trim # 0 THEN SubSeq(pcm, 1, n - trim) ELSE pcm
    IN  IF n = 0 THEN pcm
        ELSE IF Len(kept) = 0 THEN kept
        ELSE [k \in 1..(Len(kept) \div 3) |->
                TruncDiv(kept[3 * k - 2] + kept[3 * k - 1] + kept[3 * k], 3)]

CodecInit ==
    /\ codecIn \in CodecInputs
    /\ codecOp = <<>>
    /\ codecOut = codecIn
    /\ BridgeParked
    /\ TwoCallParked
    /\ RecParked
    /\ V5Parked
    /\ SmsParked

CodecUpsample ==
    /\ Len(codecOp) < 2
    /\ codecOut' = upsample_8k_to_24k(codecOut)
    /\ codecOp' = Append(codecOp, "up")
    /\ UNCHANGED <<codecIn, bridgeVars, smsVars, twoCallVars, recVars, v5Vars>>

CodecDownsample ==
    /\ Len(codecOp) < 2
    /\ codecOut' = downsample_24k_to_8k(codecOut)
    /\ codecOp' = Append(codecOp, "down")
    /\ UNCHANGED <<codecIn, bridgeVars, smsVars, twoCallVars, recVars, v5Vars>>

CodecNext == CodecUpsample \/ CodecDownsample

CodecSpec == CodecInit /\ [][CodecNext]_vars

(* ======================================================================= *)
(* src/voice_v5.py: the earlier bridge, its inbound task                   *)
(* forward_audio_to_openai. Directives carry the number of audio bytes.    *)
(* ======================================================================= *)
MaxV5 == 6            \* telephony events read by forward_audio_to_openai

(* payload of a media event: a frame of bytes, "" (no byte), an odd number *)
(* of bytes (np.frombuffer with int16 raises), or no payload key           *)
V5Payloads == {"audio", "empty", "odd", "missing"}

V5Raises(p) == p \in {"odd", "missing"}

V5Bytes(p) == IF p = "audio" THEN 160 ELSE 0

V5Init ==
    /\ v5Sent = <<>>
    /\ v5Pump = "idle"
    /\ BridgeParked
    /\ CodecParked
    /\ TwoCallParked
    /\ RecParked
    /\ SmsParked

(* media_stream up to the creation of the two tasks *)
V5Open ==
    /\ v5Pump = "idle"
    /\ v5Sent' = <<Directive("session.update", 0),
                   Directive("response.create", 0)>>
    /\ v5Pump' = "running"
    /\ UNCHANGED <<bridgeVars, smsVars, codecVars, twoCallVars, recVars>>

V5Ready == v5Pump = "running" /\ Len(v5Sent) < MaxV5 + 2

V5Media(p) ==
    /\ V5Ready
    /\ IF V5Raises(p)
       THEN /\ v5Pump' = "failed"
            /\ UNCHANGED v5Sent
       ELSE /\ v5Sent' = Append(v5Sent,
                    Directive("input_audio_buffer.append", V5Bytes(p)))
            /\ UNCHANGED v5Pump
    /\ UNCHANGED <<bridgeVars, smsVars, codecVars, twoCallVars, recVars>>

(* a stop event writes a commit and the loop goes on *)
V5Stop ==
    /\ V5Ready
    /\ v5Sent' = Append(v5Sent, Directive("input_audio_buffer.commit", 0))
    /\ UNCHANGED v5Pump
    /\ UNCHANGED <<bridgeVars, smsVars, codecVars, twoCallVars, recVars>>

(* ws.iter_text() ends when the telephony peer disconnects *)
V5Disconnect ==
    /\ v5Pump = "running"
    /\ v5Pump' = "done"
    /\ UNCHANGED <<v5Sent, bridgeVars, smsVars, codecVars, twoCallVars, recVars>>

V5Next ==
    \/ V5Open
    \/ \E p \in V5Payloads : V5Media(p)
    \/ V5Stop
    \/ V5Disconnect

V5Spec == V5Init /\ [][V5Next]_vars

(* ======================================================================= *)
(* src/voice.py: two calls served by the same process. Each invocation of  *)
(* media_stream has its own sockets and its own closure variables; the     *)
(* module-level names it reads (OPENAI_API_KEY, OPENAI_MODEL, the prompt)  *)
(* are never assigned after import. The credential is present.             *)
(* ======================================================================= *)
MaxCallEv == 3        \* messages read by the pumps of one call

CallIds == {"A", "B"}

CallSids == {"CA123", "CA456"}

(* a call before ws.accept(); up and down count the messages written to    *)
(* the upstream socket and to the telephony socket of this call            *)
FreshCall ==
    [pos |-> "init", ws |-> "pending", oa |-> "none",
     inP |-> "idle", outP |-> "idle",
     frames_since_commit |-> 0, stream_sid |-> NoSid, cancelled_once |-> FALSE,
     up |-> 0, down |-> 0, ev |-> 0]

(* accept, connect, session.update, response.create, start of the pumps *)
CallOpen(s) ==
    [s EXCEPT !.pos = "pumps", !.ws = "open", !.oa = "open",
              !.inP = "running", !.outP = "running", !.up = 2]

(* ws_connect raises; the except clause prints *)
CallConnectFail(s) ==
    [s EXCEPT !.pos = "returned", !.ws = "open", !.oa = "failed"]

CallStart(s, sid) == [s EXCEPT !.stream_sid = sid, !.ev = @ + 1]

CallMedia(s) ==
    IF s.oa # "open"
    THEN [s EXCEPT !.inP = "failed", !.ev = @ + 1]
    ELSE [s EXCEPT
            !.up = @ + Len(FrameDirectives(s.cancelled_once,
                                           s.frames_since_commit, 0)),
            !.cancelled_once = TRUE,
            !.frames_since_commit = CounterAfter(@),
            !.ev = @ + 1]

CallStop(s) == [s EXCEPT !.inP = "done", !.ev = @ + 1]

CallMalformed(s) == [s EXCEPT !.inP = "failed", !.ev = @ + 1]

CallDelta(s, n24) ==
    IF DropDelta(s.stream_sid, UlawLen(n24))
    THEN [s EXCEPT !.ev = @ + 1]
    ELSE [s EXCEPT !.down = @ + 1, !.ev = @ + 1]

CallOaClose(s) ==
    [s EXCEPT !.outP = "done",
              !.oa = IF @ = "open" THEN "closed" ELSE @]

CallReturn(s) == [s EXCEPT !.pos = "returned", !.oa = "released"]

(* variant: frames_since_commit is a module-level name, one for all calls *)
Deliver_ModuleCounter(c, new) ==
    [d \in CallIds |->
        IF d = c THEN new
        ELSE [calls[d] EXCEPT !.frames_since_commit = new.frames_since_commit]]

(* the state a step of call c leaves behind: its sockets and its closure   *)
(* variables belong to that invocation of media_stream                     *)
Deliver(c, new) == [calls EXCEPT ![c] = new]

TwoCallInit ==
    /\ calls = [c \in CallIds |-> FreshCall]
    /\ actor = "none"
    /\ BridgeParked
    /\ CodecParked
    /\ RecParked
    /\ V5Parked
    /\ SmsParked

InRunning(s) == s.inP = "running" /\ s.ws = "open" /\ s.ev < MaxCallEv

OutRunning(s) == s.outP = "running" /\ s.oa = "open" /\ s.ev < MaxCallEv

TcOpen(c) ==
    /\ calls[c].pos = "init"
    /\ calls' = Deliver(c, CallOpen(calls[c]))
    /\ actor' = c
    /\ UNCHANGED <<bridgeVars, smsVars, codecVars, recVars, v5Vars>>

TcConnectFail(c) ==
    /\ calls[c].pos = "init"
    /\ calls' = Deliver(c, CallConnectFail(calls[c]))
    /\ actor' = c
    /\ UNCHANGED <<bridgeVars, smsVars, codecVars, recVars, v5Vars>>

TcStart(c, sid) ==
    /\ InRunning(calls[c])
    /\ calls' = Deliver(c, CallStart(calls[c], sid))
    /\ actor' = c
    /\ UNCHANGED <<bridgeVars, smsVars, codecVars, recVars, v5Vars>>

TcMedia(c) ==
    /\ InRunning(calls[c])
    /\ calls' = Deliver(c, CallMedia(calls[c]))
    /\ actor' = c
    /\ UNCHANGED <<bridgeVars, smsVars, codecVars, recVars, v5Vars>>

TcStop(c) ==
    /\ InRunning(calls[c])
    /\ calls' = Deliver(c, CallStop(calls[c]))
    /\ actor' = c
    /\ UNCHANGED <<bridgeVars, smsVars, codecVars, recVars, v5Vars>>

TcMalformed(c) ==
    /\ InRunning(calls[c])
    /\ calls' = Deliver(c, CallMalformed(calls[c]))
    /\ actor' = c
    /\ UNCHANGED <<bridgeVars, smsVars, codecVars, recVars, v5Vars>>

TcDelta(c, n24) ==
    /\ OutRunning(calls[c])
    /\ calls' = Deliver(c, CallDelta(calls[c], n24))
    /\ actor' = c
    /\ UNCHANGED <<bridgeVars, smsVars, codecVars, recVars, v5Vars>>

TcOaClose(c) ==
    /\ calls[c].outP = "running"
    /\ calls[c].oa \in {"open", "released"}
    /\ calls' = Deliver(c, CallOaClose(calls[c]))
    /\ actor' = c
    /\ UNCHANGED <<bridgeVars, smsVars, codecVars, recVars, v5Vars>>

TcReturn(c) ==
    /\ calls[c].pos = "pumps"
    /\ \/ calls[c].inP = "done" /\ calls[c].outP = "done"
       \/ calls[c].inP = "failed"
       \/ calls[c].outP = "failed"
    /\ calls' = Deliver(c, CallReturn(calls[c]))
    /\ actor' = c
    /\ UNCHANGED <<bridgeVars, smsVars, codecVars, recVars, v5Vars>>

TwoCallNext ==
    \E c \in CallIds :
        \/ TcOpen(c)
        \/ TcConnectFail(c)
        \/ \E sid \in CallSids : TcStart(c, sid)
        \/ TcMedia(c)
        \/ TcStop(c)
        \/ TcMalformed(c)
        \/ \E n \in DeltaSamples : TcDelta(c, n)
        \/ TcOaClose(c)
        \/ TcReturn(c)

TwoCallSpec == TwoCallInit /\ [][TwoCallNext]_vars

(* ======================================================================= *)
(* src/voice_v7.py (and voice_v8.py, the same handlers): the record-and-   *)
(* reply service. Twilio posts /voice, then /process_audio with each       *)
(* recording, follows the redirects and fetches the audio it is told to    *)
(* play. A handler is async and never awaits after reading the form, so    *)
(* one request is one action; requests of different calls interleave.      *)
(* ======================================================================= *)
MaxTurns == 1         \* recordings posted by one call

(* no such file, or nothing played or transcribed yet *)
NoFile == [call |-> "none", turn |-> 0]

(* the CallSid field of a call's requests; form.get("CallSid", "") gives   *)
(* "" when the field is absent                                             *)
FormSids(c) == {"", "CA-" \o c}

(* the values of detect_intent that update_session_from_intent tells      *)
(* apart; every other value (emergency, cancel, hours, ...) acts as        *)
(* "unknown" on the session                                                *)
Intents == {"unknown", "book", "book_cleaning", "book_checkup", "book_pain",
            "availability"}

(* what becomes of one posted recording: too short, download refused,      *)
(* transcribed to nothing, transcribed to text, text but the speech        *)
(* synthesis request fails                                                 *)
Outcomes == {"short", "nodownload", "silent", "spoken", "ttsfail"}

(* audio of call c made for its turn t (a recording or a synthesized reply) *)
Audio(c, t) == [call |-> c, turn |-> t]

(* {"history": [], "service": None, "stage": "idle"}; owner is the call    *)
(* whose request created the entry                                         *)
FreshSession(c) ==
    [owner |-> c, history |-> <<>>, service |-> "None", stage |-> "idle"]

OwnerOf(reg, k) == IF k \in DOMAIN reg THEN reg[k].owner ELSE "none"

(* SESSIONS[k] = v *)
Assign(reg, k, v) ==
    [x \in DOMAIN reg \cup {k} |-> IF x = k THEN v ELSE reg[x]]

(* SESSIONS.setdefault(k, fresh) *)
Setdefault(reg, k, c) ==
    IF k \in DOMAIN reg THEN reg ELSE Assign(reg, k, FreshSession(c))

(* variant: a plain "book" intent clears the service and restarts the flow *)
update_session_from_intent_BookResets(sess, intent) ==
    [sess EXCEPT
        !.service = CASE intent = "book_cleaning" -> "cleaning"
                      [] intent = "book_checkup" -> "checkup"
                      [] intent = "book_pain" -> "pain"
                      [] intent = "book" -> "None"
                      [] OTHER -> @,
        !.stage = IF intent = "availability" THEN "checking_availability"
                  ELSE IF intent = "book" THEN "idle" ELSE @]

update_session_from_intent(sess, intent) ==
    [sess EXCEPT
        !.service = CASE intent = "book_cleaning" -> "cleaning"
                      [] intent = "book_checkup" -> "checkup"
                      [] intent = "book_pain" -> "pain"
                      [] OTHER -> @,
        !.stage = IF intent = "availability" THEN "checking_availability"
                  ELSE @]

Said(sess, role, c) ==
    [sess EXCEPT !.history = Append(@, [role |-> role, call |-> c])]

RecInit ==
    /\ SESSIONS = <<>>
    /\ files = [greeting |-> FALSE, reply |-> NoFile, call |-> NoFile]
    /\ caller \in [CallIds ->
                      [sid : {"", "CA-A", "CA-B"}, next : {"voice"}, turn : {0},
                       told : {NoFile}, heard : {NoFile},
                       transcribed : {NoFile}]]
    /\ \A c \in CallIds : caller[c].sid \in FormSids(c)
    /\ lastReq = [call |-> "none", key |-> "", owner |-> "none"]
    /\ BridgeParked
    /\ CodecParked
    /\ TwoCallParked
    /\ V5Parked
    /\ SmsParked

Request(c, k) == [call |-> c, key |-> k, owner |-> OwnerOf(SESSIONS, k)]

(* POST /voice *)
Greet(c, ttsOk) ==
    /\ caller[c].next = "voice"
    /\ SESSIONS' = Assign(SESSIONS, caller[c].sid, FreshSession(c))
    /\ lastReq' = Request(c, caller[c].sid)
    /\ files' = [files EXCEPT !.greeting = IF ttsOk THEN TRUE ELSE @]
    /\ caller' = [caller EXCEPT ![c].next = "record"]
    /\ UNCHANGED <<bridgeVars, smsVars, codecVars, twoCallVars, v5Vars>>

(* POST /conversation *)
Conversation(c) ==
    /\ caller[c].next = "conversation"
    /\ caller' = [caller EXCEPT ![c].next = "record"]
    /\ UNCHANGED <<SESSIONS, files, lastReq>>
    /\ UNCHANGED <<bridgeVars, smsVars, codecVars, twoCallVars, v5Vars>>

(* tts_stream_to("reply.mp3", reply) *)
ReplyWritten(f, c, t) == [f EXCEPT !.reply = Audio(c, t)]

(* POST /process_audio *)
ProcessAudio(c, outcome, intent) ==
    LET k == caller[c].sid
        t == caller[c].turn + 1
        reg == Setdefault(SESSIONS, k, c)
        saved == [files EXCEPT !.call = Audio(c, t)]
        heardText == Said(reg[k], "user", c)
        sess == update_session_from_intent(heardText, intent)
        answered == Said(sess, "assistant", c)
    IN  /\ caller[c].next = "record"
        /\ caller[c].turn < MaxTurns
        /\ lastReq' = Request(c, k)
        /\ IF outcome \in {"short", "nodownload"}
           THEN /\ SESSIONS' = reg
                /\ files' = files
                /\ caller' = [caller EXCEPT ![c].turn = t,
                                             ![c].next = "conversation"]
           ELSE IF outcome = "silent"
           THEN /\ SESSIONS' = reg
                /\ files' = saved
                /\ caller' = [caller EXCEPT ![c].turn = t,
                                             ![c].transcribed = saved.call,
                                             ![c].next = "conversation"]
           ELSE IF sess.stage = "checking_availability"
           THEN /\ SESSIONS' = Assign(reg, k, sess)
                /\ files' = saved
                /\ caller' = [caller EXCEPT ![c].turn = t,
                                             ![c].transcribed = saved.call,
                                             ![c].next = "followup"]
           ELSE IF outcome = "ttsfail"
           THEN \* raise_for_status raises, the request ends in an error
                /\ SESSIONS' = Assign(reg, k, answered)
                /\ files' = saved
                /\ caller' = [caller EXCEPT ![c].turn = t,
                                             ![c].transcribed = saved.call,
                                             ![c].next = "done"]
           ELSE /\ SESSIONS' = Assign(reg, k, answered)
                /\ files' = ReplyWritten(saved, c, t)
                /\ caller' = [caller EXCEPT ![c].turn = t,
                                             ![c].transcribed = saved.call,
                                             ![c].told = Audio(c, t),
                                             ![c].next = "fetch_reply"]
        /\ UNCHANGED <<bridgeVars, smsVars, codecVars, twoCallVars, v5Vars>>

(* POST /agent_followup *)
AgentFollowup(c, ttsOk) ==
    LET k == caller[c].sid
        reg == Setdefault(SESSIONS, k, c)
        offered == [Said(reg[k], "assistant", c) EXCEPT !.stage = "offered_times"]
    IN  /\ caller[c].next = "followup"
        /\ lastReq' = Request(c, k)
        /\ SESSIONS' = Assign(reg, k, offered)
        /\ IF ttsOk
           THEN /\ files' = ReplyWritten(files, c, caller[c].turn)
                /\ caller' = [caller EXCEPT ![c].told = Audio(c, caller[c].turn),
                                             ![c].next = "fetch_reply"]
           ELSE /\ files' = files
                /\ caller' = [caller EXCEPT ![c].next = "done"]
        /\ UNCHANGED <<bridgeVars, smsVars, codecVars, twoCallVars, v5Vars>>

(* GET /reply.mp3, the file the caller was told to play *)
ServeReply(c) ==
    /\ caller[c].next = "fetch_reply"
    /\ caller' = [caller EXCEPT ![c].heard = files.reply,
                                 ![c].next = "conversation"]
    /\ UNCHANGED <<SESSIONS, files, lastReq>>
    /\ UNCHANGED <<bridgeVars, smsVars, codecVars, twoCallVars, v5Vars>>

RecNext ==
    \E c \in CallIds :
        \/ \E ok \in BOOLEAN : Greet(c, ok)
        \/ Conversation(c)
        \/ \E o \in Outcomes, i \in Intents : ProcessAudio(c, o, i)
        \/ \E ok \in BOOLEAN : AgentFollowup(c, ok)
        \/ ServeReply(c)

RecSpec == RecInit /\ [][RecNext]_vars

(* ======================================================================= *)
(* src/main_v12.py: the SMS endpoint sms_reply and its bookings file. A    *)
(* message body is the set of keywords it contains. The handler never      *)
(* awaits, so one request is one action.                                   *)
(* ======================================================================= *)
Users == {"15550001", "15550002"}

Words == {"pain", "cancel", "resched", "open", "thanks", "book", "cleaning",
          "checkup", "consult"}

Bodies == SUBSET Words

(* the first list with a keyword in the message decides *)
detect_intent(msg) ==
    IF "pain" \in msg THEN "emergency"
    ELSE IF "cancel" \in msg THEN "cancel"
    ELSE IF "resched" \in msg THEN "reschedule"
    ELSE IF "open" \in msg THEN "hours"
    ELSE IF "thanks" \in msg THEN "gratitude"
    ELSE IF msg \cap {"book", "cleaning", "checkup"} # {} THEN "book"
    ELSE "unknown"

extract_reason(msg) ==
    IF "cleaning" \in msg THEN "Cleaning"
    ELSE IF "pain" \in msg THEN "Pain / Emergency"
    ELSE IF "checkup" \in msg THEN "Checkup"
    ELSE IF "consult" \in msg THEN "Consultation"
    ELSE "General dental visit"

(* a user without an entry in the file *)
NoBooking == [status |-> "none", reason |-> ""]

(* the branch of the if / elif chain that a request takes *)
Branch(rec, intent) ==
    IF rec.status = "booked" /\ intent = "book" THEN "already"
    ELSE IF intent = "book" THEN "ask_reason"
    ELSE IF rec.status = "awaiting_reason" THEN "ask_time"
    ELSE IF rec.status = "awaiting_time" THEN "book_now"
    ELSE IF intent = "cancel" THEN "cancel"
    ELSE IF intent = "hours" THEN "hours"
    ELSE IF intent = "emergency" THEN "emergency"
    ELSE IF intent = "gratitude" THEN "gratitude"
    ELSE "chat"

(* the user's record after the request; link tells whether                *)
(* book_appointment returned a booking URL                                *)
RecordAfter(rec, msg, link) ==
    CASE Branch(rec, detect_intent(msg)) = "ask_reason"
            -> [status |-> "awaiting_reason", reason |-> ""]
      [] Branch(rec, detect_intent(msg)) = "ask_time"
            -> [status |-> "awaiting_time", reason |-> extract_reason(msg)]
      [] Branch(rec, detect_intent(msg)) = "book_now"
            -> IF link THEN [status |-> "booked", reason |-> rec.reason]
               ELSE rec
      [] Branch(rec, detect_intent(msg)) = "cancel" -> NoBooking
      [] OTHER -> rec

(* the text sent back, by kind *)
ReplyKind(rec, msg, link) ==
    CASE Branch(rec, detect_intent(msg)) = "book_now"
            -> IF link THEN "confirmed" ELSE "booking_failed"
      [] Branch(rec, detect_intent(msg)) = "cancel"
            -> IF rec.status # "none" THEN "cancelled" ELSE "nothing_to_cancel"
      [] OTHER -> Branch(rec, detect_intent(msg))

SmsInit ==
    /\ bookings = [u \in Users |-> NoBooking]
    /\ smsLast = [user |-> "none", intent |-> "none", urgent |-> FALSE,
                  before |-> "none", reply |-> "none", called |-> FALSE,
                  link |-> FALSE]
    /\ BridgeParked
    /\ CodecParked
    /\ TwoCallParked
    /\ RecParked
    /\ V5Parked

(* POST /sms *)
SmsReply(u, msg, link) ==
    /\ bookings' = [bookings EXCEPT ![u] = RecordAfter(@, msg, link)]
    /\ smsLast' = [user |-> u,
                   intent |-> detect_intent(msg),
                   urgent |-> "pain" \in msg,
                   before |-> bookings[u].status,
                   reply |-> ReplyKind(bookings[u], msg, link),
                   called |-> Branch(bookings[u], detect_intent(msg))
                                 = "book_now",
                   link |-> link]
    /\ UNCHANGED <<bridgeVars, codecVars, twoCallVars, recVars, v5Vars>>

SmsNext == \E u \in Users, msg \in Bodies, link \in BOOLEAN : SmsReply(u, msg, link)

SmsSpec == SmsInit /\ [][SmsNext]_vars

(* ======================================================================= *)
(* Properties                                                              *)
(* ======================================================================= *)
Appends == Count(oaSent, "input_audio_buffer.append")
Commits == Count(oaSent, "input_audio_buffer.commit")
Cancels == Count(oaSent, "response.cancel")

CountBefore(seq, t, i) ==
    Cardinality({j \in DOMAIN seq : j < i /\ seq[j].type = t})

(* ceil(MIN_COMMIT_MS / TWILIO_FRAME_MS) *)
FramesPerCommit ==
    (MIN_COMMIT_MS + TWILIO_FRAME_MS - 1) \div TWILIO_FRAME_MS

(* C1: after n appended frames exactly floor(n/6) commits have been sent,  *)
(* and the k-th commit directive stands right after the 6k-th append:      *)
(* never earlier, never more than one per six frames.                      *)
C1_CommitEverySixFrames ==
    /\ FramesPerCommit = 6
    /\ Commits = Appends \div FramesPerCommit
    /\ \A i \in DOMAIN oaSent :
          oaSent[i].type = "input_audio_buffer.commit" =>
             CountBefore(oaSent, "input_audio_buffer.append", i)
                = FramesPerCommit
                    * (CountBefore(oaSent, "input_audio_buffer.commit", i) + 1)

C1_Witness == Appends = 2 * FramesPerCommit /\ Commits = 2 /\ nIn > Appends

(* C2: frames_since_commit is never negative, it is zero whenever the last *)
(* directive sent upstream is a commit, and every commit directive has an  *)
(* append between it and the previous commit (or the start of the call).   *)
C2_CounterResetAndNoEmptyCommit ==
    /\ frames_since_commit >= 0
    /\ (Len(oaSent) > 0
          /\ oaSent[Len(oaSent)].type = "input_audio_buffer.commit"
        => frames_since_commit = 0)
    /\ \A i \in DOMAIN oaSent :
          oaSent[i].type = "input_audio_buffer.commit" =>
             \E j \in 1..(i - 1) :
                /\ oaSent[j].type = "input_audio_buffer.append"
                /\ \A k \in (j + 1)..(i - 1) :
                      oaSent[k].type # "input_audio_buffer.commit"

C2_Witness ==
    /\ Commits = 1
    /\ oaSent[Len(oaSent)].type = "input_audio_buffer.commit"
    /\ frames_since_commit = 0

C4_CancelBeforeFirstAppend ==
    /\ [](Appends = 0 => Cancels = 0 /\ ~cancelled_once)
    /\ [](Appends >= 1 =>
            /\ FirstIndex(oaSent, "response.cancel") >= 1
            /\ FirstIndex(oaSent, "input_audio_buffer.append")
                 = FirstIndex(oaSent, "response.cancel") + 1
            /\ oaSent[FirstIndex(oaSent, "input_audio_buffer.append")].frame = 1)
    /\ [][(TwMedia("absent") \/ TwMedia("empty") \/ TwMedia("zero"))
            => UNCHANGED <<oaSent, cancelled_once>>]_vars

C4_Witness ==
    /\ Appends >= 1
    /\ nIn > Appends + 1
    /\ FirstIndex(oaSent, "response.cancel") = 3
    /\ FirstIndex(oaSent, "input_audio_buffer.append") = 4

(* C5: once the upstream session is open and media_stream has passed its   *)
(* configuration step, session.update has been sent exactly once, and it   *)
(* is the first directive on the upstream socket.                          *)
C5_SessionUpdateOnceFirst ==
    /\ Count(oaSent, "session.update") <= 1
    /\ (oaSent # <<>> => oaSent[1].type = "session.update")
    /\ (oaState \in {"open", "closed", "released"} /\ pc # "opened"
          => Count(oaSent, "session.update") = 1)

C5_Witness ==
    /\ Appends >= 1
    /\ Count(oaSent, "session.update") = 1
    /\ FirstIndex(oaSent, "session.update") = 1

(* C6: response.create is sent exactly once, as the second directive right *)
(* after session.update, before any telephony event is read and so before  *)
(* every append, commit and cancel.                                        *)
C6_GreetingOnceBeforeInput ==
    /\ Count(oaSent, "response.create") <= 1
    /\ (Count(oaSent, "response.create") = 1 =>
          /\ oaSent[1].type = "session.update"
          /\ oaSent[2].type = "response.create")
    /\ (nIn > 0 \/ pc = "pumps" \/ inPump # "idle" \/ outPump # "idle"
           \/ Appends + Commits + Cancels > 0
          => Count(oaSent, "response.create") = 1)

C6_Witness ==
    /\ nIn >= FramesPerCommit
    /\ Commits = 1
    /\ Cancels = 1
    /\ FirstIndex(oaSent, "response.create") = 2

(* C7: the lifecycle state never moves to an earlier state, ACTIVE is      *)
(* entered only from GREETING_SENT, and SESSION_ESTABLISHED is entered     *)
(* only with the upstream socket open and session.update sent.             *)
C7_LifecycleOnlyAdvances ==
    [][/\ Rank(Lifecycle') >= Rank(Lifecycle)
       /\ (Lifecycle' = "ACTIVE" /\ Lifecycle # "ACTIVE"
             => Lifecycle = "GREETING_SENT")
       /\ (Lifecycle' = "SESSION_ESTABLISHED" /\ Lifecycle # "SESSION_ESTABLISHED"
             => /\ oaState' = "open"
                /\ Count(oaSent', "session.update") = 1)]_vars

C7_Witness == Lifecycle = "CLOSED" /\ Appends >= 1 /\ oaState = "released"

(* C8 as stated: with the credential missing the call is never CONNECTED.  *)
C8_Original == ~keyPresent => Lifecycle \in {"INIT", "CLOSED"}

(* C8 amended: with the credential missing the telephony connection is     *)
(* accepted (CONNECTED) and the call then goes directly to CLOSED, closing *)
(* the telephony socket; it never reaches SESSION_ESTABLISHED or a later   *)
(* state before CLOSED and never opens an upstream connection.             *)
C8_MissingKeyClosesFromConnected ==
    /\ [](~keyPresent =>
            /\ Lifecycle \in {"INIT", "CONNECTED", "CLOSED"}
            /\ oaState = "none"
            /\ oaSent = <<>>
            /\ (Lifecycle = "CLOSED" => wsState = "closed"))
    /\ [][~keyPresent /\ Lifecycle = "CONNECTED" => Lifecycle' = "CLOSED"]_vars

C8_Witness == ~keyPresent /\ Lifecycle = "CLOSED" /\ wsState = "closed"

(* C9: when the upstream connection attempt fails the call is CLOSED,      *)
(* neither pump ran, nothing was read or sent, and the bridge has closed   *)
(* the telephony connection.                                               *)
C9_ConnectFailureClosesTelephony ==
    oaState = "failed" =>
        /\ Lifecycle = "CLOSED"
        /\ inPump = "idle"
        /\ outPump = "idle"
        /\ nIn = 0
        /\ nOut = 0
        /\ oaSent = <<>>
        /\ twSent = <<>>
        /\ wsState = "closed"

(* C10: nothing is sent to the telephony side before a start event has     *)
(* been read, and every outbound media event carries the non-empty         *)
(* stream_sid that a start event had set when the event was sent.          *)
C10_OutboundNeedsStreamSid ==
    /\ [](~started => twSent = <<>> /\ stream_sid = NoSid)
    /\ [](\A i \in DOMAIN twSent :
             ~Falsy(twSent[i].sid) /\ twSent[i].sid \in StartSids)
    /\ [][twSent' # twSent =>
            /\ started
            /\ ~Falsy(stream_sid)
            /\ Len(twSent') = Len(twSent) + 1
            /\ twSent'[Len(twSent')].sid = stream_sid]_vars

C10_Witness == nAudioOut >= 1 /\ ~started /\ twSent = <<>>

(* C11: a malformed telephony event (not JSON, start without streamSid,    *)
(* media without a media object) is ignored: the inbound pump keeps        *)
(* running and counter, flag and stream id are unchanged.                  *)
C11_MalformedEventIgnored ==
    [][TwMalformed => inPump' = "running" /\ UNCHANGED callVars]_vars

(* C12: a frame whose payload fails to decode, in either direction, is     *)
(* dropped: the pump that read it keeps running and media_stream stays     *)
(* where it is.                                                            *)
C12_UndecodableFrameDropped ==
    [][(TwMedia("badpad") \/ OaBadDelta)
          => inPump' = inPump /\ outPump' = outPump /\ pc' = pc]_vars

(* C13: once one pump has ended the call eventually reaches CLOSED, with   *)
(* no help from either peer.                                               *)
C13_PumpEndLeadsToClosed == PumpEnded ~> (Lifecycle = "CLOSED")

(* C14: the bridge never releases the upstream connection while the        *)
(* inbound or the outbound pump is still running.                          *)
C14_ReleaseOnlyAfterBothPumps ==
    oaState = "released" => inPump # "running" /\ outPump # "running"

(* C15: once media_stream has returned nothing more is read from either    *)
(* socket, nothing more is written to either socket and the call state     *)
(* does not change.                                                        *)
C15_ClosedIsTerminal ==
    [][pc = "returned" => UNCHANGED <<nIn, nOut, oaSent, twSent, callVars>>]_vars

(* C16: in every CLOSED state neither the upstream nor the telephony       *)
(* connection is still open.                                               *)
C16_ClosedMeansBothReleased ==
    Lifecycle = "CLOSED" => wsState # "open" /\ oaState # "open"

AppendIndexes ==
    {i \in DOMAIN oaSent : oaSent[i].type = "input_audio_buffer.append"}

(* C17: the appends on the upstream socket carry the frames in arrival     *)
(* order, the k-th append being the k-th frame read, and while the inbound *)
(* pump waits for its next event every frame read so far has its append    *)
(* on the socket.                                                          *)
C17_InboundOrderPreserved ==
    /\ \A i, j \in AppendIndexes :
          i < j => oaSent[i].frame < oaSent[j].frame
    /\ \A i \in AppendIndexes :
          oaSent[i].frame
             = CountBefore(oaSent, "input_audio_buffer.append", i) + 1
    /\ (inPump \in {"running", "done"} => Appends = nAudioIn)
    /\ Appends <= nAudioIn
    /\ nAudioIn <= Appends + 1

C17_Witness ==
    /\ Appends >= 3
    /\ nIn > nAudioIn + 1
    /\ inPump = "running"
    /\ nOut >= 1

(* C18: the media events sent to the telephony side carry upstream         *)
(* messages in strictly increasing arrival number: a subsequence of the    *)
(* deltas read, none twice, none ahead of an earlier one.                  *)
C18_OutboundOrderPreserved ==
    /\ \A i, j \in DOMAIN twSent :
          i < j => twSent[i].delta < twSent[j].delta
    /\ \A i \in DOMAIN twSent : twSent[i].delta \in 1..nOut
    /\ Len(twSent) <= nAudioOut

C18_Witness == Len(twSent) = 2 /\ nAudioOut = 2 /\ nIn >= 2

(* C19: the step in which an upstream error event is read leaves both      *)
(* pumps, both sockets, media_stream's position, the counter, the flag and *)
(* the stream id as they were.                                             *)
C19_ErrorEventNotFatal ==
    [][nOut' # nOut /\ errSeen' /\ ~errSeen
          => UNCHANGED <<pc, inPump, outPump, wsState, oaState, callVars,
                         oaSent, twSent>>]_vars

C19_Witness ==
    /\ errSeen
    /\ inPump = "running"
    /\ outPump = "running"
    /\ wsState = "open"
    /\ oaState = "open"
    /\ Appends >= 1

(* C20: the upstream connection is opened at most once per call: it        *)
(* becomes open only from the state in which it was never opened, and      *)
(* after it failed, closed or was released it is never open again.         *)
C20_UpstreamOpenedAtMostOnce ==
    [][/\ (oaState' = "open" /\ oaState # "open" => oaState = "none")
       /\ (oaState \in {"failed", "closed", "released"} => oaState' # "open")
       /\ (oaState # "none" => oaState' # "none")]_vars

C20_Witness ==
    /\ oaState = "closed"
    /\ outPump = "done"
    /\ inPump = "running"
    /\ pc = "pumps"

(* C27: a stop event ends the inbound pump without an error and sends      *)
(* nothing; afterwards the pump reads no event and writes no directive,    *)
(* and the frames counted since the last commit stay uncommitted.          *)
C27_StopEndsInboundPump ==
    /\ [][TwStop => /\ inPump' = "done"
                    /\ nIn' = nIn + 1
                    /\ UNCHANGED <<oaSent, callVars, nAudioIn>>]_vars
    /\ [][inPump = "done"
            => UNCHANGED <<inPump, nIn, nAudioIn, oaSent, callVars>>]_vars
    /\ [](inPump = "done"
            => /\ frames_since_commit = Appends % FramesPerCommit
               /\ Commits = Appends \div FramesPerCommit)

C27_Witness ==
    /\ inPump = "done"
    /\ frames_since_commit = 2
    /\ Appends = FramesPerCommit + 2
    /\ Commits = 1
    /\ oaSent[Len(oaSent)].type = "input_audio_buffer.append"

Reads(pump) == {f \in CallFields : <<"r", f>> \in touched[pump]}
Writes(pump) == {f \in CallFields : <<"w", f>> \in touched[pump]}
Touches(pump) == Reads(pump) \cup Writes(pump)
SharedFields == Touches("inbound") \cap Touches("outbound")

(* C30 as stated: the barge-in flag is the only closure variable that both *)
(* pumps access.                                                           *)
C30_Original == SharedFields \subseteq {"cancelled_once"}

(* C30 amended: the only closure variable both pumps access is stream_sid, *)
(* which the inbound pump writes and never reads and the outbound pump     *)
(* reads and never writes; the barge-in flag and the frame counter are     *)
(* accessed by the inbound pump alone.                                     *)
C30_PumpsShareOnlyStreamSid ==
    /\ SharedFields \subseteq {"stream_sid"}
    /\ Writes("outbound") = {}
    /\ Reads("outbound") \subseteq {"stream_sid"}
    /\ "stream_sid" \notin Reads("inbound")

C30_Witness ==
    /\ SharedFields = {"stream_sid"}
    /\ Touches("inbound") = CallFields
    /\ Writes("inbound") = CallFields

(* C24: for every array x of 8 kHz samples, downsampling the upsampled     *)
(* array gives back x, sample for sample.                                  *)
C24_ResampleRoundTrip ==
    codecOp = <<"up", "down">> => codecOut = codecIn

C24_Witness ==
    /\ codecOp = <<"up", "down">>
    /\ Len(codecIn) = 3
    /\ codecIn[1] = -32768
    /\ codecIn[2] = 32767
    /\ codecIn[3] = -2
    /\ codecOut = codecIn

(* C25: upsampling n samples gives 3n samples, each input sample three     *)
(* times in a row and in order; downsampling n samples gives floor(n/3)    *)
(* samples, one per whole block of three (its mean cut toward zero), so    *)
(* fewer than three samples give none and a trailing one or two are        *)
(* dropped; a telephony frame of 160 samples is upsampled to 480.          *)
C25_ResampleLengths ==
    /\ (codecOp = <<"up">> =>
          /\ Len(codecOut) = 3 * Len(codecIn)
          /\ \A i \in 1..Len(codecIn) : \A k \in 1..3 :
                codecOut[3 * (i - 1) + k] = codecIn[i])
    /\ (codecOp = <<"down">> =>
          /\ Len(codecOut) = Len(codecIn) \div 3
          /\ (Len(codecIn) < 3 => Len(codecOut) = 0)
          /\ \A k \in 1..Len(codecOut) :
                LET sum == codecIn[3 * k - 2] + codecIn[3 * k - 1] + codecIn[3 * k]
                    err == sum - 3 * codecOut[k]
                IN  /\ err \in -2..2
                    /\ (sum >= 0 => err >= 0)
                    /\ (sum <= 0 => err <= 0))
    /\ Len(upsample_8k_to_24k([i \in 1..Pcm8Size("audio") |-> 0])) = 480

C25_Witness ==
    /\ codecOp = <<"down">>
    /\ Len(codecIn) = 4
    /\ Len(codecOut) = 1
    /\ codecIn[1] = -2 /\ codecIn[2] = 0 /\ codecIn[3] = 1
    /\ codecOut[1] = 0

(* C29: in voice_v5 every commit directive has, between it and the         *)
(* previous commit (or the start of the call), an append that carried at   *)
(* least one byte of audio.                                                *)
C29_V5NoEmptyCommit ==
    \A i \in DOMAIN v5Sent :
        v5Sent[i].type = "input_audio_buffer.commit" =>
            \E j \in 1..(i - 1) :
                /\ v5Sent[j].type = "input_audio_buffer.append"
                /\ v5Sent[j].frame > 0
                /\ \A k \in (j + 1)..(i - 1) :
                      v5Sent[k].type # "input_audio_buffer.commit"

(* C21: a step of one call (an event it reads, an error it raises, its     *)
(* return) leaves the other call's counter, flag, stream id, both of its   *)
(* sockets, the number of messages written to them and its position as     *)
(* they were.                                                              *)
C21_CallsIndependent ==
    [][\A c \in CallIds : actor' # c => calls'[c] = calls[c]]_vars

C21_Witness ==
    /\ calls["A"].pos = "returned"
    /\ calls["A"].inP = "failed"
    /\ calls["A"].oa = "released"
    /\ calls["A"].stream_sid = "CA123"
    /\ calls["A"].frames_since_commit = 1
    /\ calls["B"].pos = "pumps"
    /\ calls["B"].inP = "running"
    /\ calls["B"].outP = "running"
    /\ calls["B"].ws = "open"
    /\ calls["B"].oa = "open"
    /\ calls["B"].stream_sid = "CA456"
    /\ calls["B"].frames_since_commit = 2
    /\ calls["B"].cancelled_once
    /\ actor = "A"

(* C22: the registry entry a request reads, creates or replaces was not    *)
(* created by a different call, also when the requests carry no CallSid.   *)
C22_RegistryKeyedByOwnCall ==
    lastReq.owner \in {"none", lastReq.call}

(* C23: the reply audio a caller fetches is the audio synthesized for that *)
(* caller's own latest turn, and the recording transcribed for a turn is   *)
(* that caller's own recording of that turn.                               *)
C23_OwnAudioOnly ==
    \A c \in CallIds :
        /\ caller[c].heard \in {NoFile, caller[c].told}
        /\ caller[c].transcribed \in {NoFile, Audio(c, caller[c].turn)}
                \cup {Audio(c, t) : t \in 1..caller[c].turn}

(* the steps of the inbound pump that read an event carrying no audio *)
NoAudioEvent ==
    \/ TwConnected
    \/ \E sid \in StartSids : TwStart(sid)
    \/ TwOther
    \/ TwMedia("absent")
    \/ TwMedia("empty")
    \/ TwMedia("zero")

(* C31: connected, start, an event of unknown kind and a media event whose *)
(* payload is absent, empty or decodes to no sample write nothing upstream *)
(* and leave the counter and the barge-in flag as they were; the pump goes *)
(* on; a start event sets the stream id to the one it carries and the      *)
(* others leave the stream id alone.                                       *)
C31_NoAudioEventsAreInert ==
    /\ [][NoAudioEvent
            => /\ UNCHANGED <<oaSent, frames_since_commit, cancelled_once>>
               /\ inPump' = "running"
               /\ nIn' = nIn + 1]_vars
    /\ [][\A sid \in StartSids : TwStart(sid) => stream_sid' = sid]_vars
    /\ [][TwConnected \/ TwOther \/ TwMedia("absent") \/ TwMedia("empty")
            \/ TwMedia("zero") => stream_sid' = stream_sid]_vars

C31_Witness ==
    /\ inPump = "running"
    /\ Appends = 2
    /\ frames_since_commit = 2
    /\ cancelled_once
    /\ nIn = 7
    /\ stream_sid = "CA456"
    /\ oaSent[Len(oaSent)].frame = 2

(* C32: the call is ACTIVE only with the barge-in flag set and exactly one *)
(* cancel sent; in GREETING_SENT the flag is false, no cancel has been     *)
(* sent and no frame appended; the step from GREETING_SENT to ACTIVE is    *)
(* the step that sends the cancel and sets the flag.                       *)
C32_ActiveIffCancelled ==
    /\ [](Lifecycle = "ACTIVE" => cancelled_once /\ Cancels = 1)
    /\ [](Lifecycle = "GREETING_SENT"
            => ~cancelled_once /\ Cancels = 0 /\ Appends = 0)
    /\ [][Lifecycle = "GREETING_SENT" /\ Lifecycle' = "ACTIVE"
            => /\ cancelled_once' /\ ~cancelled_once
               /\ Cancels' = 1 /\ Cancels = 0
               /\ Appends' = 1]_vars

C32_Witness ==
    /\ Lifecycle = "ACTIVE"
    /\ Appends = 1
    /\ Cancels = 1
    /\ cancelled_once
    /\ nIn = 1

(* C33: with OPENAI_API_KEY missing media_stream closes the telephony      *)
(* socket and returns; no upstream socket is ever opened, no directive is  *)
(* sent, neither pump starts and no event or message is read.              *)
C33_MissingKeyOpensNothing ==
    /\ [](~keyPresent =>
            /\ oaState = "none"
            /\ oaSent = <<>>
            /\ twSent = <<>>
            /\ inPump = "idle"
            /\ outPump = "idle"
            /\ nIn = 0
            /\ nOut = 0
            /\ (pc = "returned" => wsState = "closed"))
    /\ [][MissingKey => pc' = "returned" /\ wsState' = "closed"]_vars

C33_Witness ==
    /\ ~keyPresent
    /\ pc = "returned"
    /\ wsState = "closed"
    /\ oaState = "none"
    /\ inPump = "idle"

(* C34: frames_since_commit stays in 0..5, the appends sent number six     *)
(* times the commits sent plus the counter, and the counter changes only   *)
(* by one more on a step that sends an append and no commit, or to zero on *)
(* a step that sends a commit.                                             *)
C34_CounterAccountsForAppends ==
    /\ [](frames_since_commit \in 0..(FramesPerCommit - 1))
    /\ [](Appends = FramesPerCommit * Commits + frames_since_commit)
    /\ [][frames_since_commit' # frames_since_commit
            => \/ /\ frames_since_commit' = frames_since_commit + 1
                  /\ Appends' = Appends + 1
                  /\ Commits' = Commits
               \/ /\ frames_since_commit' = 0
                  /\ Appends' = Appends + 1
                  /\ Commits' = Commits + 1]_vars

C34_Witness ==
    /\ Appends = 2 * FramesPerCommit + 1
    /\ Commits = 2
    /\ frames_since_commit = 1

(* C35: after a start event the stream id is never None again; it changes  *)
(* only in a step of the inbound pump that reads a start event, which sets *)
(* it to the id that event carries; and a media event sent to the          *)
(* telephony side carries the stream id as it is in the step that sends    *)
(* it, whatever the order of the two pumps' steps.                         *)
C35_StreamSidFollowsLatestStart ==
    /\ [](started => stream_sid # NoSid)
    /\ [][stream_sid # NoSid => stream_sid' # NoSid]_vars
    /\ [][\A sid \in StartSids : TwStart(sid) => stream_sid' = sid]_vars
    /\ [][stream_sid' # stream_sid /\ pc' = pc
            => started' /\ nIn' = nIn + 1 /\ inPump = "running"
               /\ twSent' = twSent]_vars
    /\ [][twSent' # twSent
            => /\ stream_sid' = stream_sid
               /\ twSent'[Len(twSent')].sid = stream_sid]_vars

C35_Witness ==
    /\ Len(twSent) = 2
    /\ twSent[1].sid = "CA123"
    /\ twSent[2].sid = "CA456"
    /\ stream_sid = "CA456"

(* the entry under key k before a step, a request on a key that is not in  *)
(* the registry starting from the entry setdefault would create            *)
EntryBefore(k) ==
    IF k \in DOMAIN SESSIONS THEN SESSIONS[k] ELSE FreshSession("none")

(* C36: a session's stage is idle, checking_availability or offered_times; *)
(* it becomes checking_availability only in a /process_audio request of    *)
(* that key whose intent is availability; an /agent_followup request       *)
(* leaves it offered_times; it goes back to idle, and a service that was   *)
(* set is cleared, only in a /voice request of that key.                   *)
C36_SessionStageFlow ==
    /\ [](\A k \in DOMAIN SESSIONS :
            /\ SESSIONS[k].stage
                  \in {"idle", "checking_availability", "offered_times"}
            /\ SESSIONS[k].service \in {"None", "cleaning", "checkup", "pain"})
    /\ [][\A k \in DOMAIN SESSIONS' :
            /\ (SESSIONS'[k].stage = "checking_availability"
                   /\ EntryBefore(k).stage # "checking_availability"
                 => \E c \in CallIds, o \in Outcomes :
                       caller[c].sid = k /\ ProcessAudio(c, o, "availability"))
            /\ (SESSIONS'[k].stage = "idle" /\ EntryBefore(k).stage # "idle"
                 => \E c \in CallIds, ok \in BOOLEAN :
                       caller[c].sid = k /\ Greet(c, ok))
            /\ (SESSIONS'[k].service = "None"
                   /\ EntryBefore(k).service # "None"
                 => \E c \in CallIds, ok \in BOOLEAN :
                       caller[c].sid = k /\ Greet(c, ok))]_vars
    /\ [][\A c \in CallIds, ok \in BOOLEAN :
            AgentFollowup(c, ok)
              => SESSIONS'[caller[c].sid].stage = "offered_times"]_vars

C36_Witness ==
    \E k \in DOMAIN SESSIONS :
        /\ SESSIONS[k].service = "checkup"
        /\ SESSIONS[k].stage = "offered_times"
        /\ Len(SESSIONS[k].history) = 3
        /\ SESSIONS[k].history[3].role = "assistant"

StatusRank(st) ==
    CASE st = "none" -> 0
      [] st = "awaiting_reason" -> 1
      [] st = "awaiting_time" -> 2
      [] st = "booked" -> 3

(* C37: a booking record is created as awaiting_reason and then only moves *)
(* one step forward, awaiting_reason to awaiting_time to booked (or is     *)
(* removed); booked is written only from awaiting_time and only when       *)
(* book_appointment returned a link; without a link the record stays at    *)
(* awaiting_time; a booked user who sends a message of intent book keeps   *)
(* the record and no booking call is made.                                 *)
C37_BookingOnlyAdvances ==
    /\ [][\A u \in Users :
            bookings'[u].status # bookings[u].status
              => \/ bookings'[u].status = "none"
                 \/ StatusRank(bookings'[u].status)
                       = StatusRank(bookings[u].status) + 1]_vars
    /\ [][\A u \in Users :
            bookings'[u].status = "booked" /\ bookings[u].status # "booked"
              => /\ bookings[u].status = "awaiting_time"
                 /\ smsLast'.user = u
                 /\ smsLast'.called
                 /\ smsLast'.link]_vars
    /\ [][smsLast'.called /\ ~smsLast'.link => bookings' = bookings]_vars
    /\ [][smsLast'.before = "booked" /\ smsLast'.intent = "book"
            => bookings' = bookings /\ ~smsLast'.called]_vars

(* C38: a message with an emergency keyword is classified emergency, is    *)
(* answered with the emergency-line reply and changes no booking record,   *)
(* whatever the sender's booking status.                                   *)
C38_EmergencyAlwaysWins ==
    /\ [](smsLast.urgent => smsLast.intent = "emergency")
    /\ [][smsLast'.intent = "emergency"
            => smsLast'.reply = "emergency" /\ bookings' = bookings]_vars
====
